---- MODULE Spec2Model ----
(***************************************************************************)
(* Book-generation pipeline of app/book_writer.py and the /generate-book/  *)
(* handler of app/main.py.                                                 *)
(*                                                                         *)
(* Texts are sequences of character codes.  Code 0 is a whitespace         *)
(* character, DOT is '.', NL is a newline; the other codes are ordinary    *)
(* characters.  Every await of the code is a separate step of the model.   *)
(***************************************************************************)
EXTENDS Integers, Sequences, FiniteSets, TLC

\* ------------------------------------------------------------------ bounds
\* requested page counts run over -PagesBelow .. PagesAbove
PagesBelow == 40
PagesAbove == 130
\* word targets handed to generate_content_block directly run up to this
MaxWordTarget == 3400
\* number of lines of a chapter-title reply
MaxTitleLines == 3

\* ------------------------------------------------------- program constants
WORDS_PER_SECTION_TARGET == 750
WORDS_PER_PAGE == 250
FIXED_FRONT_MATTER == 27
OVERHEAD_PAGES_PER_CHAPTER == 2
CONTENT_PAGES_PER_CHAPTER == 5
MIN_CHAPTERS == 1
MAX_CHAPTERS == 12
MAX_PAGES == 100
PROLOGUE_WORD_TARGET == 250
EPILOGUE_WORD_TARGET == 250
SUMMARY_FALLBACK_CHARS == 300
CHAPTER_COOLDOWN == 4
SECTION_COOLDOWN == 2

\* ------------------------------------------------------------------- texts
SPACE == 0
DOT == 9
NL == 8

Min(a, b) == IF a <= b THEN a ELSE b
Max(a, b) == IF a >= b THEN a ELSE b

\* Python text[:n]
Prefix(text, n) == SubSeq(text, 1, Min(n, Len(text)))

\* Python str.strip(): drop the leading and the trailing whitespace
Whitespace == {SPACE, NL}
Strip(text) ==
    LET idx == {k \in 1..Len(text) : text[k] \notin Whitespace}
    IN  IF idx = {} THEN <<>>
        ELSE LET lo == CHOOSE k \in idx : \A j \in 1..(k - 1) : text[j] \in Whitespace
                 hi == CHOOSE k \in idx :
                           \A j \in (k + 1)..Len(text) : text[j] \in Whitespace
             IN  SubSeq(text, lo, hi)

\* Python sep.join(parts)
RECURSIVE JoinWith(_, _)
JoinWith(sep, parts) ==
    IF Len(parts) = 0 THEN <<>>
    ELSE IF Len(parts) = 1 THEN parts[1]
    ELSE parts[1] \o sep \o JoinWith(sep, Tail(parts))

\* "\n\n".join(parts)
JoinSections(parts) == JoinWith(<<NL, NL>>, parts)

\* Python round(n / d) for d > 0: round half to even
PyRound(n, d) ==
    LET q == n \div d
        r == n % d
    IN  IF 2 * r < d THEN q
        ELSE IF 2 * r > d THEN q + 1
        ELSE IF q % 2 = 0 THEN q ELSE q + 1

\* Python int(n / d) for d > 0: truncation toward zero
PyInt(n, d) == IF n >= 0 THEN n \div d ELSE -((-n) \div d)

\* --------------------------------------------- calculate_book_parameters
pages_for_chapters(num_pages) == num_pages - FIXED_FRONT_MATTER

\* (variants of the line: without the clamp; with the sign of the quotient dropped)
chapters_needed_unclamped(num_pages) ==
    PyRound(pages_for_chapters(num_pages),
            CONTENT_PAGES_PER_CHAPTER + OVERHEAD_PAGES_PER_CHAPTER)
chapters_needed_abs(num_pages) ==
    LET r == PyRound(pages_for_chapters(num_pages),
                     CONTENT_PAGES_PER_CHAPTER + OVERHEAD_PAGES_PER_CHAPTER)
    IN  Max(MIN_CHAPTERS, Min(MAX_CHAPTERS, IF r < 0 THEN -r ELSE r))
chapters_needed_of(num_pages) ==
    Max(MIN_CHAPTERS, Min(MAX_CHAPTERS,
        PyRound(pages_for_chapters(num_pages),
                CONTENT_PAGES_PER_CHAPTER + OVERHEAD_PAGES_PER_CHAPTER)))

\* (variant: without the floor of one content page)
content_pages_unfloored(num_pages) ==
    num_pages - FIXED_FRONT_MATTER
    - chapters_needed_of(num_pages) * OVERHEAD_PAGES_PER_CHAPTER
content_pages_for_chapters(num_pages) ==
    Max(1, num_pages - FIXED_FRONT_MATTER
           - chapters_needed_of(num_pages) * OVERHEAD_PAGES_PER_CHAPTER)

total_words_needed(num_pages) ==
    content_pages_for_chapters(num_pages) * WORDS_PER_PAGE

\* (variant: round() in place of int())
target_words_per_chapter_rounded(num_pages) ==
    IF chapters_needed_of(num_pages) > 0
    THEN PyRound(total_words_needed(num_pages), chapters_needed_of(num_pages))
    ELSE 0
target_words_per_chapter_of(num_pages) ==
    IF chapters_needed_of(num_pages) > 0
    THEN PyInt(total_words_needed(num_pages), chapters_needed_of(num_pages))
    ELSE 0

calculate_book_parameters(num_pages) ==
    [chapters_needed |-> chapters_needed_of(num_pages),
     target_words_per_chapter |-> target_words_per_chapter_of(num_pages)]

\* ------------------------------------------------------------------- state
VARIABLES
    hpc,                      \* position of generate_star_wars_book
    user_input,               \* request.user_input
    num_pages,                \* request.num_pages
    final_page_count,
    book_title,
    response,                 \* 0 while none, else the HTTP status
    pdf_calls,                \* invocations of save_book_as_pdf
    book_data,                \* <<>> while None, else <<the returned book>>
    error,                    \* the exception the handler caught, "" while none
    bpc,                      \* position of generate_user_prompt_driven_book
    chapters_needed,
    target_words_per_chapter,
    data_context,
    titles,                   \* the generate_chapter_titles task
    final_titles,
    chapters_data,
    ch,                       \* loop variables of the chapter loop
    blk,                      \* the generate_content_block calls, per unit
    run,                      \* two requests side by side: the files they write
    fetch                     \* the collection script of fetch_swapi_data.py

vars == <<hpc, user_input, num_pages, final_page_count, book_title, response,
          pdf_calls, book_data, error, bpc, chapters_needed, target_words_per_chapter,
          data_context, titles, final_titles, chapters_data, ch, blk,
          run, fetch>>

other_vars == <<run, fetch>>
req_vars == <<user_input, num_pages>>
plan_vars == <<chapters_needed, target_words_per_chapter>>
handler_vars == <<hpc, final_page_count, book_title, response, pdf_calls, book_data,
                 error>>
book_vars == <<bpc, data_context, titles, final_titles, chapters_data, ch>>

Units == {"prologue", "epilogue", "chapter"}

\* -------------------------------------------------- the external text model
\* The replies of the text model: a long one (more than SUMMARY_FALLBACK_CHARS
\* characters once stripped) and a short one, both wrapped in whitespace and
\* both starting with a character that tells the calls of one unit apart.
ReplyExtraChars == 1
GenVariants == {"long", "short"}

GenContent(v, k) ==
    IF v = "long"
    THEN <<SPACE>> \o [j \in 1..(SUMMARY_FALLBACK_CHARS + ReplyExtraChars) |->
                          IF j = 1 THEN 10 + k ELSE 1 + (j % 3)] \o <<SPACE>>
    ELSE <<SPACE, 10 + k, SPACE, 2, SPACE>>

SummaryContent(text) == <<SPACE, 20>> \o Prefix(text, 1) \o <<SPACE>>

\* the fixed sentences of generate_content_block
StartOfSection == <<32>>
SceneSummary(title) == <<30>> \o title \o <<31>>
PrologueTitle == <<40>>
EpilogueTitle == <<41>>
Ellipsis == <<DOT, DOT, DOT>>

\* ------------------------------------------------------- summarize_section
\* (variant: the prefix without the ellipsis)
summarize_section_bare(text) == Prefix(text, SUMMARY_FALLBACK_CHARS)
summarize_section_fallback(text) == Prefix(text, SUMMARY_FALLBACK_CHARS) \o Ellipsis

summarize_section_reply(text) == Strip(SummaryContent(text))

\* -------------------------------------------------- generate_content_block
NewBlock(title, word_target) ==
    [pc |-> "idle", title |-> title, word_target |-> word_target,
     single |-> FALSE, num_sections |-> 0, i |-> 0, parts |-> <<>>,
     summary |-> <<>>, result |-> <<>>,
     calls |-> <<>>,          \* the generation calls issued: summary and words
     sum_calls |-> 0,         \* the summarization calls issued
     sum_log |-> <<>>,        \* their outcomes, in order
     sleeps |-> 0,            \* the cooldowns started
     gen_errors |-> 0]        \* the generation calls that failed

\* (variant: < in place of <=)
skips_generation_negative(word_target) == word_target < 0
skips_generation(word_target) == word_target <= 0

\* (variant: < in place of <=)
single_section_strict(word_target) == word_target < WORDS_PER_SECTION_TARGET
single_section(word_target) == word_target <= WORDS_PER_SECTION_TARGET

\* (variant: an exact half rounded up)
num_sections_half_up(word_target) ==
    (2 * word_target + WORDS_PER_SECTION_TARGET) \div (2 * WORDS_PER_SECTION_TARGET)
num_sections_of(word_target) == PyRound(word_target, WORDS_PER_SECTION_TARGET)

GenCall(summary, words) == [summary |-> summary, words |-> words]

\* the call of generate_content_block, up to its first await
generate_content_block(b) ==
    IF skips_generation(b.word_target)
    THEN [b EXCEPT !.pc = "returned", !.result = <<>>]
    ELSE IF single_section(b.word_target)
    THEN [b EXCEPT !.pc = "gen", !.single = TRUE,
                   !.calls = <<GenCall(StartOfSection, b.word_target)>>]
    ELSE LET n == num_sections_of(b.word_target)
             s == SceneSummary(b.title)
         IN  IF n <= 0
             THEN [b EXCEPT !.pc = "returned", !.num_sections = n, !.summary = s,
                            !.result = JoinSections(<<>>)]
             ELSE [b EXCEPT !.pc = "gen", !.num_sections = n, !.summary = s,
                            !.calls = <<GenCall(s, WORDS_PER_SECTION_TARGET)>>]

\* (variant: the final section summarized too)
summarizes_after_every(i, num_sections) == i < num_sections
summarizes_after(i, num_sections) == i < num_sections - 1

join_parts(parts) == JoinSections(parts)

\* a generation call of the block returned section_text
block_after_section(b, section_text) ==
    IF b.single
    THEN [b EXCEPT !.pc = "returned", !.result = section_text]
    ELSE LET parts == Append(b.parts, section_text)
         IN  IF summarizes_after(b.i, b.num_sections)
             THEN [b EXCEPT !.parts = parts, !.pc = "sum", !.sum_calls = @ + 1]
             ELSE IF b.i + 1 < b.num_sections
             THEN [b EXCEPT !.parts = parts, !.i = @ + 1, !.pc = "gen",
                            !.calls = Append(@, GenCall(b.summary, WORDS_PER_SECTION_TARGET))]
             ELSE [b EXCEPT !.parts = parts, !.pc = "returned",
                            !.result = join_parts(parts)]

\* a generation call of the block raised: nothing catches it in the block
\* (variant: the error caught, what was generated so far returned)
block_swallows_error(b) == [b EXCEPT !.pc = "returned", !.result = join_parts(b.parts)]
block_after_error(b) == [b EXCEPT !.pc = "raised"]

\* summarize_section returned summary; asyncio.sleep(2) starts
\* (variant: the result of the summarization dropped)
block_keeps_summary(b, summary, outcome) ==
    [b EXCEPT !.sum_log = Append(@, outcome), !.pc = "sleep", !.sleeps = @ + 1]
block_after_summary(b, summary, outcome) ==
    [b EXCEPT !.summary = summary, !.sum_log = Append(@, outcome),
              !.pc = "sleep", !.sleeps = @ + 1]

\* the cooldown elapsed: the next iteration issues its generation call
\* (variant: the loop index not advanced)
block_repeats_section(b) ==
    [b EXCEPT !.pc = "gen",
              !.calls = Append(@, GenCall(b.summary, WORDS_PER_SECTION_TARGET))]
block_after_sleep(b) ==
    IF b.i + 1 < b.num_sections
    THEN [b EXCEPT !.i = @ + 1, !.pc = "gen",
                   !.calls = Append(@, GenCall(b.summary, WORDS_PER_SECTION_TARGET))]
    ELSE [b EXCEPT !.i = @ + 1, !.pc = "returned", !.result = join_parts(b.parts)]

SectionReplyOk(u) ==
    /\ blk[u].pc = "gen"
    /\ \E v \in GenVariants :
         blk' = [blk EXCEPT ![u] =
                   block_after_section(blk[u], Strip(GenContent(v, Len(blk[u].calls))))]
    /\ UNCHANGED <<other_vars, req_vars, plan_vars, handler_vars, book_vars>>

SectionReplyFail(u) ==
    /\ blk[u].pc = "gen"
    /\ blk' = [blk EXCEPT ![u] =
                 block_after_error([blk[u] EXCEPT !.gen_errors = @ + 1])]
    /\ UNCHANGED <<other_vars, req_vars, plan_vars, handler_vars, book_vars>>

SectionSummaryReplyOk(u) ==
    /\ blk[u].pc = "sum"
    /\ blk' = [blk EXCEPT ![u] =
                 block_after_summary(blk[u],
                     summarize_section_reply(blk[u].parts[Len(blk[u].parts)]), "ok")]
    /\ UNCHANGED <<other_vars, req_vars, plan_vars, handler_vars, book_vars>>

SectionSummaryReplyFail(u) ==
    /\ blk[u].pc = "sum"
    /\ blk' = [blk EXCEPT ![u] =
                 block_after_summary(blk[u],
                     summarize_section_fallback(blk[u].parts[Len(blk[u].parts)]), "fail")]
    /\ UNCHANGED <<other_vars, req_vars, plan_vars, handler_vars, book_vars>>

SectionSleepDone(u) ==
    /\ blk[u].pc = "sleep"
    /\ blk' = [blk EXCEPT ![u] = block_after_sleep(blk[u])]
    /\ UNCHANGED <<other_vars, req_vars, plan_vars, handler_vars, book_vars>>

\* ------------------------------------------------- generate_chapter_titles
DIGIT == 7
CHAPTER_WORD == 42
COLON == 43
NumberCode(n) == 100 + n

IsNumbered(line) ==
    \E n \in 1..Len(line) :
        /\ \A j \in 1..n : line[j] = DIGIT
        /\ n < Len(line) /\ line[n + 1] = DOT

\* the group (.*) of ^\d+\.\s*(.*) on a numbered line
TitleOf(line) ==
    LET n == CHOOSE n \in 1..Len(line) :
                 /\ \A j \in 1..n : line[j] = DIGIT
                 /\ line[n + 1] = DOT
        rest == SubSeq(line, n + 2, Len(line))
        idx == {k \in 1..Len(rest) : rest[k] # SPACE}
    IN  IF idx = {} THEN <<>>
        ELSE SubSeq(rest, CHOOSE k \in idx : \A j \in idx : k <= j, Len(rest))

RECURSIVE FindTitles(_)
FindTitles(lines) ==
    IF lines = <<>> THEN <<>>
    ELSE IF IsNumbered(Head(lines))
         THEN <<TitleOf(Head(lines))>> \o FindTitles(Tail(lines))
         ELSE FindTitles(Tail(lines))

DefaultTitles(num_chapters) == [i \in 1..num_chapters |-> <<CHAPTER_WORD, NumberCode(i)>>]

chapter_titles_from(content, num_chapters) ==
    IF FindTitles(content) # <<>> THEN FindTitles(content)
    ELSE DefaultTitles(num_chapters)

\* the replies of the title call: an optional line of preamble, then n numbered lines
NumberedLine(k) == <<DIGIT, DOT, SPACE, 50 + k>>
TitleReplies ==
    {(IF p = 1 THEN <<<<60, SPACE, 61>>>> ELSE <<>>) \o [k \in 1..n |-> NumberedLine(k)] :
        p \in {0, 1}, n \in 0..MaxTitleLines}

\* final_titles = chapter_titles[:chapters_needed]
final_titles_of(chapter_titles, n) == Prefix(chapter_titles, n)

ChapterHeading(i, title) == <<CHAPTER_WORD, NumberCode(i + 1), COLON>> \o title

\* ------------------------------------------------------ the request handler
HASH == 5
QUOTE == 6
RawTitleContent == <<SPACE, QUOTE, 70, HASH, 71, QUOTE, SPACE>>

\* .strip().strip('"') of generate_book_title
StripQuotes(text) ==
    LET idx == {k \in 1..Len(text) : text[k] # QUOTE}
    IN  IF idx = {} THEN <<>>
        ELSE SubSeq(text,
                    CHOOSE k \in idx : \A j \in 1..(k - 1) : text[j] = QUOTE,
                    CHOOSE k \in idx : \A j \in (k + 1)..Len(text) : text[j] = QUOTE)
generate_book_title(content) == StripQuotes(Strip(content))

\* raw_title.replace("#", "").strip()
clean_title(raw_title) == Strip(SelectSeq(raw_title, LAMBDA c : c # HASH))

NoChapter == [i |-> 0, chapter_text |-> <<>>, image_summary |-> <<>>,
              summary_outcome |-> "", image_log |-> <<>>]
NoTitles == [pc |-> "idle", result |-> <<>>]
IdleBlocks == [u \in Units |-> NewBlock(<<>>, 0)]

\* the except clause of the handler: HTTPException(status_code=500)
handler_on_exception(cause) ==
    /\ response' = 500
    /\ error' = cause
    /\ hpc' = "done"
    /\ bpc' = IF bpc \in {"idle", "returned"} THEN bpc ELSE "raised"
    /\ UNCHANGED <<final_page_count, book_title, pdf_calls, book_data>>

\* user_prompt = request.user_input.strip()
\* (variant: the input taken as it is)
user_prompt_unstripped(input) == input
user_prompt_of(input) == Strip(input)

ReceiveRequest ==
    /\ hpc = "start"
    /\ IF user_prompt_of(user_input) = <<>>
       THEN /\ response' = 400
            /\ hpc' = "done"
            /\ UNCHANGED <<final_page_count, bpc>>
       ELSE /\ final_page_count' = Min(num_pages, MAX_PAGES)
            /\ hpc' = "title"
            /\ UNCHANGED <<response, bpc>>
    /\ UNCHANGED <<other_vars, req_vars, plan_vars, book_title, pdf_calls, book_data, error,
                   data_context, titles, final_titles, chapters_data, ch, blk>>

BookTitleReplyFail ==
    /\ hpc = "title"
    /\ handler_on_exception("title")
    /\ UNCHANGED <<other_vars, req_vars, plan_vars, data_context, titles, final_titles,
                   chapters_data, ch, blk>>

\* the title arrived; generate_user_prompt_driven_book runs up to the selection call
BookTitleReplyOk ==
    /\ hpc = "title"
    /\ book_title' = clean_title(generate_book_title(RawTitleContent))
    /\ chapters_needed' = calculate_book_parameters(final_page_count).chapters_needed
    /\ target_words_per_chapter' =
           calculate_book_parameters(final_page_count).target_words_per_chapter
    /\ hpc' = "book"
    /\ bpc' = "select"
    /\ UNCHANGED <<other_vars, req_vars, final_page_count, response, pdf_calls, book_data, error,
                   data_context, titles, final_titles, chapters_data, ch, blk>>

\* ------------------------------------------ generate_user_prompt_driven_book
\* the return statement, and the handler up to run_in_threadpool(save_book_as_pdf)
ReturnBook(chapters) ==
    /\ book_data' = <<[prologue_text |-> blk["prologue"].result,
                       epilogue_text |-> blk["epilogue"].result,
                       data_context |-> data_context,
                       chapters |-> chapters]>>
    /\ bpc' = "returned"
    /\ hpc' = "pdf"
    /\ pdf_calls' = pdf_calls + 1
    /\ UNCHANGED <<final_page_count, book_title, response, error>>

\* one iteration of the chapter loop, up to the first await of its block
StartChapter(i, all_titles, log) ==
    /\ blk' = [blk EXCEPT !["chapter"] =
                 generate_content_block(
                     NewBlock(ChapterHeading(i, all_titles[i + 1]),
                              target_words_per_chapter))]
    /\ ch' = [NoChapter EXCEPT !.i = i, !.image_log = log]
    /\ bpc' = "chapter_block"
    /\ UNCHANGED handler_vars

\* the three coroutines handed to asyncio.gather, each up to its first await
StartGather ==
    /\ blk' = [blk EXCEPT
                 !["prologue"] = generate_content_block(
                                     NewBlock(PrologueTitle, PROLOGUE_WORD_TARGET)),
                 !["epilogue"] = generate_content_block(
                                     NewBlock(EpilogueTitle, EPILOGUE_WORD_TARGET))]
    /\ titles' = [pc |-> "call", result |-> <<>>]
    /\ bpc' = "gather"
    /\ UNCHANGED <<handler_vars, final_titles, chapters_data, ch>>

\* the outcomes of json.loads and of the loop over selected_names.items()
SelectReplyKinds == {"mapping", "invalid_json", "bad_shape"}

SelectReplyOk ==
    /\ bpc = "select"
    /\ \E kind \in SelectReplyKinds :
         IF kind = "bad_shape"
         THEN /\ handler_on_exception("selection_shape")
              /\ UNCHANGED <<data_context, titles, final_titles, chapters_data, ch, blk>>
         ELSE /\ data_context' = IF kind = "mapping" THEN "selected" ELSE "empty"
              /\ StartGather
    /\ UNCHANGED <<other_vars, req_vars, plan_vars>>

SelectReplyFail ==
    /\ bpc = "select"
    /\ handler_on_exception("selection")
    /\ UNCHANGED <<other_vars, req_vars, plan_vars, data_context, titles, final_titles,
                   chapters_data, ch, blk>>

ChapterTitlesReplyOk ==
    /\ titles.pc = "call"
    /\ \E content \in TitleReplies :
         titles' = [pc |-> "returned",
                    result |-> chapter_titles_from(content, chapters_needed)]
    /\ UNCHANGED <<other_vars, req_vars, plan_vars, handler_vars, bpc, data_context, final_titles,
                   chapters_data, ch, blk>>

ChapterTitlesReplyFail ==
    /\ titles.pc = "call"
    /\ titles' = [pc |-> "raised", result |-> <<>>]
    /\ UNCHANGED <<other_vars, req_vars, plan_vars, handler_vars, bpc, data_context, final_titles,
                   chapters_data, ch, blk>>

\* results = await asyncio.gather(...): all three returned
GatherDone ==
    /\ bpc = "gather"
    /\ blk["prologue"].pc = "returned"
    /\ blk["epilogue"].pc = "returned"
    /\ titles.pc = "returned"
    /\ final_titles' = final_titles_of(titles.result, chapters_needed)
    /\ chapters_data' = <<>>
    /\ IF final_titles' = <<>>
       THEN ReturnBook(<<>>) /\ UNCHANGED <<ch, blk>>
       ELSE StartChapter(0, final_titles', <<>>)
    /\ UNCHANGED <<other_vars, req_vars, plan_vars, data_context, titles>>

\* results = await asyncio.gather(...): one of the three raised
GatherRaise ==
    /\ bpc = "gather"
    /\ \/ /\ \/ blk["prologue"].pc = "raised"
             \/ blk["epilogue"].pc = "raised"
          /\ handler_on_exception("generation")
       \/ /\ titles.pc = "raised"
          /\ handler_on_exception("titles")
    /\ UNCHANGED <<other_vars, req_vars, plan_vars, data_context, titles, final_titles,
                   chapters_data, ch, blk>>

\* chapter_text = await generate_content_block(...); summarize_section is called
ChapterBlockReturned ==
    /\ bpc = "chapter_block"
    /\ blk["chapter"].pc = "returned"
    /\ ch' = [ch EXCEPT !.chapter_text = blk["chapter"].result]
    /\ bpc' = "chapter_summary"
    /\ UNCHANGED <<other_vars, req_vars, plan_vars, handler_vars, data_context, titles,
                   final_titles, chapters_data, blk>>

ChapterBlockRaised ==
    /\ bpc = "chapter_block"
    /\ blk["chapter"].pc = "raised"
    /\ handler_on_exception("generation")
    /\ UNCHANGED <<other_vars, req_vars, plan_vars, data_context, titles, final_titles,
                   chapters_data, ch, blk>>

\* image_summary = await summarize_section(chapter_text); generate_chapter_image
\* is called and issues the prompt-sanitizing call
ChapterSummaryReplyOk ==
    /\ bpc = "chapter_summary"
    /\ ch' = [ch EXCEPT !.image_summary = summarize_section_reply(ch.chapter_text),
                        !.summary_outcome = "ok"]
    /\ bpc' = "image_prompt"
    /\ UNCHANGED <<other_vars, req_vars, plan_vars, handler_vars, data_context, titles,
                   final_titles, chapters_data, blk>>

ChapterSummaryReplyFail ==
    /\ bpc = "chapter_summary"
    /\ ch' = [ch EXCEPT !.image_summary = summarize_section_fallback(ch.chapter_text),
                        !.summary_outcome = "fail"]
    /\ bpc' = "image_prompt"
    /\ UNCHANGED <<other_vars, req_vars, plan_vars, handler_vars, data_context, titles,
                   final_titles, chapters_data, blk>>

\* ---------------------------------------------------- generate_chapter_image
\* the one file name the model draws for generated_images/<12 characters>.png
ImagePath == 1
NoImage == 0

\* chapters_data.append(...); asyncio.sleep(4) starts
\* (variant: the entry inserted at the front of the list)
FinishChapterFirst(image_path, outcome) ==
    /\ chapters_data' = <<[heading |-> final_titles[ch.i + 1],
                           content |-> ch.chapter_text,
                           image_path |-> image_path]>> \o chapters_data
    /\ ch' = [ch EXCEPT !.image_log = Append(@, outcome)]
    /\ bpc' = "chapter_sleep"
    /\ UNCHANGED handler_vars
FinishChapter(image_path, outcome) ==
    /\ chapters_data' = Append(chapters_data,
                               [heading |-> final_titles[ch.i + 1],
                                content |-> ch.chapter_text,
                                image_path |-> image_path])
    /\ ch' = [ch EXCEPT !.image_log = Append(@, outcome)]
    /\ bpc' = "chapter_sleep"
    /\ UNCHANGED handler_vars

\* except Exception: return None
\* (variant: the error left to propagate)
chapter_image_error_propagates(stage) ==
    /\ handler_on_exception("image")
    /\ UNCHANGED <<chapters_data, ch>>
chapter_image_on_error(stage) == FinishChapter(NoImage, stage)

ImagePromptReplyOk ==
    /\ bpc = "image_prompt"
    /\ bpc' = "image_generate"
    /\ UNCHANGED <<other_vars, req_vars, plan_vars, handler_vars, data_context, titles,
                   final_titles, chapters_data, ch, blk>>

ImagePromptReplyFail ==
    /\ bpc = "image_prompt"
    /\ chapter_image_on_error("prompt")
    /\ UNCHANGED <<other_vars, req_vars, plan_vars, data_context, titles, final_titles, blk>>

ImageGenerateReplyOk ==
    /\ bpc = "image_generate"
    /\ bpc' = "image_download"
    /\ UNCHANGED <<other_vars, req_vars, plan_vars, handler_vars, data_context, titles,
                   final_titles, chapters_data, ch, blk>>

ImageGenerateReplyFail ==
    /\ bpc = "image_generate"
    /\ chapter_image_on_error("generate")
    /\ UNCHANGED <<other_vars, req_vars, plan_vars, data_context, titles, final_titles, blk>>

ImageDownloadReplyOk ==
    /\ bpc = "image_download"
    /\ FinishChapter(ImagePath, "ok")
    /\ UNCHANGED <<other_vars, req_vars, plan_vars, data_context, titles, final_titles, blk>>

\* client.get, raise_for_status or the write of the file raised
ImageDownloadReplyFail ==
    /\ bpc = "image_download"
    /\ chapter_image_on_error("download")
    /\ UNCHANGED <<other_vars, req_vars, plan_vars, data_context, titles, final_titles, blk>>

\* the cooldown after a chapter elapsed: the next chapter, or the return
ChapterSleepDone ==
    /\ bpc = "chapter_sleep"
    /\ IF ch.i + 1 < Len(final_titles)
       THEN /\ StartChapter(ch.i + 1, final_titles, ch.image_log)
            /\ UNCHANGED chapters_data
       ELSE /\ ReturnBook(chapters_data)
            /\ UNCHANGED <<chapters_data, ch, blk>>
    /\ UNCHANGED <<other_vars, req_vars, plan_vars, data_context, titles, final_titles>>

\* ------------------------------------------------------------ save_book_as_pdf
PdfDone ==
    /\ hpc = "pdf"
    /\ response' = 200
    /\ hpc' = "done"
    /\ UNCHANGED <<other_vars, req_vars, plan_vars, final_page_count, book_title, pdf_calls,
                   book_data, error, book_vars, blk>>

PdfFail ==
    /\ hpc = "pdf"
    /\ handler_on_exception("pdf")
    /\ UNCHANGED <<other_vars, req_vars, plan_vars, data_context, titles, final_titles,
                   chapters_data, ch, blk>>

\* --------------------------------------------- the files of two requests
\* Two requests to /generate-book/ served by one process, in any interleaving
\* (one after the other included). Of each request the steps that decide a
\* file path are kept: the title reply, the illustration of a chapter and
\* save_book_as_pdf, which runs in a worker thread between its start and its end.
NumRuns == 2
Runs == 1..NumRuns

UNDERSCORE == 4
SLASH == 44
PNG == 51
PDF == 52
FILENAME_CHARS == 50

\* the characters of the class [\\/*?:"<>|] among those of the model
UnsafeChars == {COLON, QUOTE, SLASH}

\* re.sub(r'[\\/*?:"<>|]', "", text)[:50].strip().replace(' ', '_')
sanitize_filename(text) ==
    LET kept == SelectSeq(text, LAMBDA c : c \notin UnsafeChars)
        cut == Strip(Prefix(kept, FILENAME_CHARS))
    IN  [j \in 1..Len(cut) |-> IF cut[j] = SPACE THEN UNDERSCORE ELSE cut[j]]

\* filename = f"{sanitize_filename(book_title)}.pdf", joined to "generated_books"
PdfPathOf(title) == <<"generated_books", sanitize_filename(title) \o <<DOT, PDF>>>>

\* image_filename: 12 characters drawn at random, ".png", joined to
\* "generated_images". Of the 62^12 names the model keeps one per request, and a
\* draw never repeats a name drawn before.
ImageNames == 1..NumRuns
ImagePathOf(name) == <<"generated_images", <<90 + name, DOT, PNG>>>>

\* the title replies of the text model: two that differ only by a colon, one
\* with a space, one longer than FILENAME_CHARS with a tail after the cut
LongTitle(last) == [j \in 1..(FILENAME_CHARS + 1) |-> IF j > FILENAME_CHARS THEN last ELSE 74]
RunTitleReplies ==
    {RawTitleContent, <<70, COLON, 71>>, <<QUOTE, 72, SPACE, 73, QUOTE>>,
     LongTitle(75), LongTitle(76)}

NewRun == [pc |-> "start", book_title |-> <<>>, images |-> {}, pdf |-> <<>>,
           response |-> 0]
IdleRuns == [r \in Runs |-> NewRun]

DrawnImagePaths == UNION {run[r].images : r \in Runs}

RunTitleReplyOk(r) ==
    /\ run[r].pc = "start"
    /\ \E content \in RunTitleReplies :
         run' = [run EXCEPT ![r].book_title = clean_title(generate_book_title(content)),
                            ![r].pc = "image"]
    /\ UNCHANGED <<fetch, req_vars, plan_vars, handler_vars, book_vars, blk>>

RunTitleReplyFail(r) ==
    /\ run[r].pc = "start"
    /\ run' = [run EXCEPT ![r].pc = "done", ![r].response = 500]
    /\ UNCHANGED <<fetch, req_vars, plan_vars, handler_vars, book_vars, blk>>

\* the illustration of the chapter was written; the book returns and
\* save_book_as_pdf starts writing
RunImageSaved(r) ==
    /\ run[r].pc = "image"
    /\ \E name \in ImageNames :
         /\ ImagePathOf(name) \notin DrawnImagePaths
         /\ run' = [run EXCEPT ![r].images = @ \cup {ImagePathOf(name)},
                               ![r].pdf = <<PdfPathOf(run[r].book_title)>>,
                               ![r].pc = "pdf"]
    /\ UNCHANGED <<fetch, req_vars, plan_vars, handler_vars, book_vars, blk>>

\* generate_chapter_image returned None: no file
RunImageFailed(r) ==
    /\ run[r].pc = "image"
    /\ run' = [run EXCEPT ![r].pdf = <<PdfPathOf(run[r].book_title)>>,
                          ![r].pc = "pdf"]
    /\ UNCHANGED <<fetch, req_vars, plan_vars, handler_vars, book_vars, blk>>

RunPdfDone(r) ==
    /\ run[r].pc = "pdf"
    /\ run' = [run EXCEPT ![r].pc = "done", ![r].response = 200]
    /\ UNCHANGED <<fetch, req_vars, plan_vars, handler_vars, book_vars, blk>>

RunPdfFail(r) ==
    /\ run[r].pc = "pdf"
    /\ run' = [run EXCEPT ![r].pc = "done", ![r].response = 500]
    /\ UNCHANGED <<fetch, req_vars, plan_vars, handler_vars, book_vars, blk>>

\* ------------------------------------------------------ fetch_swapi_data.py
\* main() fetches the categories one after another; fetch_all_for_category
\* follows the "next" links of one category, page by page.
categories_to_fetch == <<"people", "planets", "starships", "vehicles", "species", "films">>
NumCategories == Len(categories_to_fetch)
\* the pages a category can have
MaxCategoryPages == 2
\* the records a page can hold
MaxPageResults == 1

NoFetch == [pc |-> "idle", cat |-> 0, pages |-> 0, all_results |-> 0,
            next_url |-> FALSE,
            requests |-> 0,      \* the requests of the category being fetched
            ended |-> [c \in 1..NumCategories |-> ""],
            saved |-> {}]

\* fetch_all_for_category(client, category) up to its first client.get
fetch_call(f, c) ==
    [f EXCEPT !.pc = "get", !.cat = c, !.pages = 0, !.all_results = 0,
              !.next_url = TRUE, !.requests = 1]

\* fetch_all_for_category returned all_results: the file of the category is
\* written if there is a record, and the loop of main goes on
fetch_return(f, how) ==
    LET g == [f EXCEPT !.ended[f.cat] = how,
                       !.saved = IF f.all_results > 0
                                 THEN @ \cup {categories_to_fetch[f.cat]} ELSE @]
    IN  IF f.cat < NumCategories
        THEN fetch_call(g, f.cat + 1)
        ELSE [g EXCEPT !.pc = "done"]

\* an exception left fetch_all_for_category: nothing in main catches it
fetch_raise(f, how) == [f EXCEPT !.ended[f.cat] = how, !.pc = "crashed"]

\* response.raise_for_status() passed and response.json() was read;
\* asyncio.sleep(0.1) starts
PageReplyOk ==
    /\ fetch.pc = "get"
    /\ \E n \in 0..MaxPageResults, more \in BOOLEAN :
         /\ more => fetch.pages + 1 < MaxCategoryPages
         /\ fetch' = [fetch EXCEPT !.pages = @ + 1, !.all_results = @ + n,
                                   !.next_url = more, !.pc = "sleep"]
    /\ UNCHANGED <<run, req_vars, plan_vars, handler_vars, book_vars, blk>>

\* the while loop tests next_url
PageSleepDone ==
    /\ fetch.pc = "sleep"
    /\ fetch' = IF fetch.next_url
                THEN [fetch EXCEPT !.pc = "get", !.requests = @ + 1]
                ELSE fetch_return(fetch, "complete")
    /\ UNCHANGED <<run, req_vars, plan_vars, handler_vars, book_vars, blk>>

\* client.get raised httpx.RequestError: except ... break
PageTransportError ==
    /\ fetch.pc = "get"
    /\ fetch' = fetch_return(fetch, "transport_error")
    /\ UNCHANGED <<run, req_vars, plan_vars, handler_vars, book_vars, blk>>

\* raise_for_status() raised httpx.HTTPStatusError, which is not a RequestError
PageHttpError ==
    /\ fetch.pc = "get"
    /\ fetch' = fetch_raise(fetch, "http_error")
    /\ UNCHANGED <<run, req_vars, plan_vars, handler_vars, book_vars, blk>>

\* ------------------------------------------------------------ specifications
UserInputs == {<<>>, <<SPACE, SPACE>>, <<NL, SPACE>>, <<SPACE, 80, SPACE, 81>>}
\* page counts of the requests of Spec: 1 chapter of 250 words (also from a
\* negative count), 1 chapter of 2000 words, 2 chapters of 875 words
RequestPages == {-3, 27, 37, 38}

Quiet ==
    /\ final_page_count = 0
    /\ book_title = <<>>
    /\ response = 0
    /\ pdf_calls = 0
    /\ book_data = <<>>
    /\ error = ""
    /\ bpc = "idle"
    /\ chapters_needed = 0
    /\ target_words_per_chapter = 0
    /\ data_context = ""
    /\ titles = NoTitles
    /\ final_titles = <<>>
    /\ chapters_data = <<>>
    /\ ch = NoChapter
    /\ run = IdleRuns

\* one request to /generate-book/
Init ==
    /\ hpc = "start"
    /\ user_input \in UserInputs
    /\ num_pages \in RequestPages
    /\ blk = IdleBlocks
    /\ fetch = NoFetch
    /\ Quiet

Next ==
    \/ ReceiveRequest
    \/ BookTitleReplyFail
    \/ BookTitleReplyOk
    \/ SelectReplyFail
    \/ SelectReplyOk
    \/ ChapterTitlesReplyFail
    \/ ChapterTitlesReplyOk
    \/ GatherDone
    \/ GatherRaise
    \/ \E u \in Units : SectionReplyFail(u)
    \/ \E u \in Units : SectionReplyOk(u)
    \/ \E u \in Units : SectionSummaryReplyFail(u)
    \/ \E u \in Units : SectionSummaryReplyOk(u)
    \/ \E u \in Units : SectionSleepDone(u)
    \/ ChapterBlockReturned
    \/ ChapterBlockRaised
    \/ ChapterSummaryReplyFail
    \/ ChapterSummaryReplyOk
    \/ ImagePromptReplyFail
    \/ ImagePromptReplyOk
    \/ ImageGenerateReplyFail
    \/ ImageGenerateReplyOk
    \/ ImageDownloadReplyFail
    \/ ImageDownloadReplyOk
    \/ ChapterSleepDone
    \/ PdfFail
    \/ PdfDone

Spec == Init /\ [][Next]_vars

\* every external call and every cooldown returns, with success or failure,
\* and the event loop then runs the step that was waiting for it
LiveSpec == Spec /\ WF_vars(Next)

\* calculate_book_parameters applied to a page count: directly, and as the
\* handler applies it, to min(num_pages, 100)
PlanPages == (-PagesBelow)..PagesAbove

InitPlan ==
    /\ hpc = "plan"
    /\ user_input = <<>>
    /\ num_pages \in PlanPages
    /\ blk = IdleBlocks
    /\ fetch = NoFetch
    /\ Quiet

PlanDirect ==
    /\ hpc = "plan"
    /\ final_page_count' = num_pages
    /\ chapters_needed' = calculate_book_parameters(num_pages).chapters_needed
    /\ target_words_per_chapter' =
           calculate_book_parameters(num_pages).target_words_per_chapter
    /\ hpc' = "planned"
    /\ UNCHANGED <<other_vars, req_vars, book_title, response, pdf_calls, book_data, error,
                   book_vars, blk>>

PlanClamped ==
    /\ hpc = "plan"
    /\ final_page_count' = Min(num_pages, MAX_PAGES)
    /\ chapters_needed' = calculate_book_parameters(final_page_count').chapters_needed
    /\ target_words_per_chapter' =
           calculate_book_parameters(final_page_count').target_words_per_chapter
    /\ hpc' = "planned"
    /\ UNCHANGED <<other_vars, req_vars, book_title, response, pdf_calls, book_data, error,
                   book_vars, blk>>

NextPlan == PlanDirect \/ PlanClamped

PlanSpec == InitPlan /\ [][NextPlan]_vars

\* generate_content_block called directly with a word target
NearHalfStep(w) ==
    LET r == w % (WORDS_PER_SECTION_TARGET \div 2)
    IN  r <= 1 \/ r = (WORDS_PER_SECTION_TARGET \div 2) - 1
WordTargets ==
    {w \in (-2)..MaxWordTarget : w <= 2 \/ NearHalfStep(w) \/ w \in {250, 800, 2000}}
BlockTitle == <<CHAPTER_WORD>>

InitBlock ==
    /\ hpc = "block"
    /\ user_input = <<>>
    /\ num_pages = 0
    /\ \E w \in WordTargets :
         blk = [u \in Units |-> IF u = "chapter" THEN NewBlock(BlockTitle, w)
                                ELSE [NewBlock(<<>>, 0) EXCEPT !.pc = "unused"]]
    /\ fetch = NoFetch
    /\ Quiet

CallContentBlock(u) ==
    /\ hpc = "block"
    /\ blk[u].pc = "idle"
    /\ blk' = [blk EXCEPT ![u] = generate_content_block(blk[u])]
    /\ UNCHANGED <<other_vars, req_vars, plan_vars, handler_vars, book_vars>>

NextBlock ==
    \E u \in Units :
        \/ CallContentBlock(u)
        \/ SectionReplyOk(u)
        \/ SectionReplyFail(u)
        \/ SectionSummaryReplyOk(u)
        \/ SectionSummaryReplyFail(u)
        \/ SectionSleepDone(u)

BlockSpec == InitBlock /\ [][NextBlock]_vars

\* two requests and the files they write
InitFiles ==
    /\ hpc = "files"
    /\ user_input = <<>>
    /\ num_pages = 0
    /\ blk = IdleBlocks
    /\ fetch = NoFetch
    /\ Quiet

NextFiles ==
    \E r \in Runs :
        \/ RunTitleReplyOk(r)
        \/ RunTitleReplyFail(r)
        \/ RunImageSaved(r)
        \/ RunImageFailed(r)
        \/ RunPdfDone(r)
        \/ RunPdfFail(r)

FilesSpec == InitFiles /\ [][NextFiles]_vars

\* one run of the collection script, from its first request on
InitFetch ==
    /\ hpc = "fetch"
    /\ user_input = <<>>
    /\ num_pages = 0
    /\ blk = IdleBlocks
    /\ fetch = fetch_call(NoFetch, 1)
    /\ Quiet

NextFetch ==
    \/ PageReplyOk
    \/ PageSleepDone
    \/ PageTransportError
    \/ PageHttpError

FetchSpec == InitFetch /\ [][NextFetch]_vars

\* ================================================================== claims
Started(b) == b.pc \notin {"idle", "unused"}
GenerationFailed == \E u \in Units : blk[u].gen_errors > 0

\* C1: after every successful run the number of entries of the returned book's
\* chapters list equals the chapter count of calculate_book_parameters, whatever
\* number of numbered titles the title reply holds.
C1_ChapterCountEqualsPlan ==
    book_data # <<>> => Len(book_data[1].chapters) = chapters_needed

\* C2: a failed body-text generation call, in any section of any unit, is not
\* swallowed: the unit raises, the book is never returned, save_book_as_pdf is
\* never invoked, and the only response the request can end with is 500.
C2_GenerationFailureIsFatal ==
    GenerationFailed =>
        /\ \A u \in Units : blk[u].gen_errors > 0 => blk[u].pc = "raised"
        /\ pdf_calls = 0
        /\ book_data = <<>>
        /\ response \in {0, 500}
        /\ hpc = "done" => response = 500
        /\ hpc # "done" =>
               \/ bpc = "gather"
                    /\ (blk["prologue"].pc = "raised" \/ blk["epilogue"].pc = "raised")
               \/ bpc = "chapter_block" /\ blk["chapter"].pc = "raised"

C2_Witness ==
    /\ hpc = "done"
    /\ response = 500
    /\ error = "generation"
    /\ blk["chapter"].gen_errors = 1
    /\ Len(blk["chapter"].parts) >= 1
    /\ blk["prologue"].pc = "returned"

\* s is the first SUMMARY_FALLBACK_CHARS characters of text followed by "..."
IsTruncationOf(s, text) ==
    LET n == IF Len(text) < SUMMARY_FALLBACK_CHARS THEN Len(text)
             ELSE SUMMARY_FALLBACK_CHARS
    IN  /\ Len(s) = n + 3
        /\ \A j \in 1..n : s[j] = text[j]
        /\ \A j \in (n + 1)..(n + 3) : s[j] = DOT

\* C3: a failed summarization never aborts the run: after the summarization of
\* section k failed the unit goes on to its cooldown and to the generation call
\* of section k+1, whose summary is the first 300 characters of section k's
\* text followed by "..."; the chapter-level summary handed to the illustration
\* step falls back the same way.
C3_SummaryFallback ==
    /\ \A u \in Units : \A k \in 1..Len(blk[u].sum_log) :
         blk[u].sum_log[k] = "fail" =>
            /\ Len(blk[u].calls) >= k
            /\ Len(blk[u].calls) = k => blk[u].pc = "sleep"
            /\ Len(blk[u].calls) > k =>
                   /\ IsTruncationOf(blk[u].calls[k + 1].summary, blk[u].parts[k])
                   /\ blk[u].calls[k + 1].words = WORDS_PER_SECTION_TARGET
    /\ ch.summary_outcome = "fail" =>
         /\ IsTruncationOf(ch.image_summary, ch.chapter_text)
         /\ bpc \in {"image_prompt", "image_generate", "image_download",
                     "chapter_sleep", "returned"}

C3_Witness ==
    /\ Len(blk["chapter"].sum_log) >= 1
    /\ blk["chapter"].sum_log[1] = "fail"
    /\ Len(blk["chapter"].parts[1]) > SUMMARY_FALLBACK_CHARS
    /\ Len(blk["chapter"].calls) >= 2
    /\ ch.summary_outcome = "fail"
    /\ Len(ch.chapter_text) > SUMMARY_FALLBACK_CHARS
    /\ response = 200

\* the offset of part k in the parts joined by a two-character separator
RECURSIVE OffsetOf(_, _)
OffsetOf(parts, k) == IF k = 1 THEN 0 ELSE OffsetOf(parts, k - 1) + Len(parts[k - 1]) + 2

IsBlankLineJoin(text, parts) ==
    LET n == Len(parts)
    IN  /\ n >= 1
        /\ Len(text) = OffsetOf(parts, n) + Len(parts[n])
        /\ \A k \in 1..n :
               LET o == OffsetOf(parts, k)
               IN  /\ SubSeq(text, o + 1, o + Len(parts[k])) = parts[k]
                   /\ k > 1 => (text[o - 1] = NL /\ text[o] = NL)

\* C4: a multi-section block that returns has issued exactly num_sections
\* generation calls and num_sections - 1 summarizations (never more while it
\* runs), and returns its section texts, in generation order, joined by a blank
\* line; a target of 2000 words gives 3 sections and 2 summarizations.
C4_MultiSectionCounts ==
    \A u \in Units :
        LET b == blk[u]
        IN  (Started(b) /\ ~b.single /\ b.word_target > WORDS_PER_SECTION_TARGET) =>
              /\ b.sum_calls <= b.num_sections - 1
              /\ Len(b.calls) <= b.num_sections
              /\ b.word_target = 2000 => b.num_sections = 3
              /\ b.pc = "returned" =>
                   /\ Len(b.calls) = b.num_sections
                   /\ Len(b.parts) = b.num_sections
                   /\ b.sum_calls = b.num_sections - 1
                   /\ Len(b.sum_log) = b.num_sections - 1
                   /\ b.sleeps = b.num_sections - 1
                   /\ \A k \in 1..Len(b.parts) :
                          b.parts[k] \in {Strip(GenContent(v, k)) : v \in GenVariants}
                   /\ IsBlankLineJoin(b.result, b.parts)

C4_Witness ==
    /\ blk["chapter"].word_target = 2000
    /\ blk["chapter"].pc = "returned"
    /\ Len(blk["chapter"].calls) = 3
    /\ blk["chapter"].sum_calls = 2
    /\ Len(blk["chapter"].result) > 2 * SUMMARY_FALLBACK_CHARS

\* n is w / WORDS_PER_SECTION_TARGET rounded to the nearest integer, an exact
\* half going up
IsHalfUpRounding(n, w) ==
    /\ 2 * WORDS_PER_SECTION_TARGET * n <= 2 * w + WORDS_PER_SECTION_TARGET
    /\ 2 * w + WORDS_PER_SECTION_TARGET < 2 * WORDS_PER_SECTION_TARGET * (n + 1)

\* n is w / WORDS_PER_SECTION_TARGET rounded to the nearest integer, an exact
\* half going to the even neighbour
IsHalfEvenRounding(n, w) ==
    LET d == 2 * WORDS_PER_SECTION_TARGET * n - 2 * w
    IN  /\ d <= WORDS_PER_SECTION_TARGET
        /\ -d <= WORDS_PER_SECTION_TARGET
        /\ (d = WORDS_PER_SECTION_TARGET \/ -d = WORDS_PER_SECTION_TARGET) => n % 2 = 0

LargeTargets == (WORDS_PER_SECTION_TARGET + 1)..MaxWordTarget

\* C5 as claimed: for every word target above 750 the number of sections is the
\* target over 750 rounded to the nearest integer, the half-way targets such as
\* 1125 and 1875 rounded like every other one (the half going up).
C5_SectionsRoundHalfUp ==
    \A u \in Units :
        LET b == blk[u]
        IN  (Started(b) /\ b.word_target > WORDS_PER_SECTION_TARGET) =>
              /\ IsHalfUpRounding(b.num_sections, b.word_target)
              /\ b.pc = "returned" => Len(b.calls) = b.num_sections

\* C5 as amended: for every word target above 750 the number of sections is the
\* target over 750 rounded to the nearest integer, an exact half going to the
\* even neighbour (1125 gives 2 sections, 1875 gives 2, 800 gives 1); it is at
\* least 1 and it is the number of generation calls of a block that returns.
\* (The first conjunct does not depend on the state: it is evaluated where a
\* block is about to be called.)
C5_SectionsRoundHalfEven ==
    /\ (\E u \in Units : blk[u].pc = "idle") =>
         \A w \in LargeTargets :
             /\ IsHalfEvenRounding(num_sections_of(w), w)
             /\ num_sections_of(w) >= 1
    /\ \A u \in Units :
         LET b == blk[u]
         IN  (Started(b) /\ b.word_target > WORDS_PER_SECTION_TARGET) =>
               /\ ~b.single
               /\ IsHalfEvenRounding(b.num_sections, b.word_target)
               /\ b.num_sections >= 1
               /\ b.word_target = 800 => b.num_sections = 1
               /\ b.word_target = 1125 => b.num_sections = 2
               /\ b.word_target = 1875 => b.num_sections = 2
               /\ b.pc = "returned" => Len(b.calls) = b.num_sections

C5_Witness ==
    /\ blk["chapter"].word_target = 1875
    /\ blk["chapter"].pc = "returned"
    /\ Len(blk["chapter"].calls) = 2
    /\ Len(blk["chapter"].parts) = 2

\* C6: for every word target <= 0, generate_content_block returns the empty
\* text and issues no generation call, no summarization and no cooldown.
C6_NoCallsForEmptyTarget ==
    \A u \in Units :
        LET b == blk[u]
        IN  (Started(b) /\ b.word_target <= 0) =>
              /\ b.pc = "returned"
              /\ b.result = <<>>
              /\ b.calls = <<>>
              /\ b.sum_calls = 0
              /\ b.sleeps = 0
              /\ b.gen_errors = 0

C6_Witness ==
    /\ blk["chapter"].word_target = 0
    /\ blk["chapter"].pc = "returned"
    /\ blk["chapter"].result = <<>>

\* C7: when the illustration step of a chapter fails (the prompt call, the
\* image call or the download), nothing is raised: the chapter is appended with
\* image_path None, its heading and its full content, and the book that is
\* returned holds every chapter of final_titles, in order.
C7_IllustrationFailureIsNotFatal ==
    /\ error # "image"
    /\ Len(ch.image_log) = Len(chapters_data)
    /\ \A k \in 1..Len(chapters_data) :
         /\ ch.image_log[k] # "ok" => chapters_data[k].image_path = NoImage
         /\ ch.image_log[k] = "ok" => chapters_data[k].image_path = ImagePath
         /\ chapters_data[k].heading = final_titles[k]
    /\ bpc = "chapter_sleep" =>
         /\ Len(chapters_data) = ch.i + 1
         /\ chapters_data[ch.i + 1].content = blk["chapter"].result
         /\ blk["chapter"].pc = "returned"
    /\ book_data # <<>> =>
         /\ book_data[1].chapters = chapters_data
         /\ Len(chapters_data) = Len(final_titles)
         /\ book_data[1].prologue_text = blk["prologue"].result
         /\ book_data[1].epilogue_text = blk["epilogue"].result

C7_Witness ==
    /\ response = 200
    /\ book_data # <<>>
    /\ Len(book_data[1].chapters) = 2
    /\ ch.image_log = <<"download", "ok">>
    /\ book_data[1].chapters[1].image_path = NoImage
    /\ Len(book_data[1].chapters[1].content) > SUMMARY_FALLBACK_CHARS
    /\ book_data[1].chapters[2].image_path = ImagePath

Planned == hpc = "planned"

\* C8: for every integer page count, also below the fixed overhead of 27, zero
\* or negative, calculate_book_parameters returns a chapter count in 1..12 and
\* a target of words per chapter >= 0.
C8_PlanInRange ==
    Planned =>
        /\ chapters_needed >= 1
        /\ chapters_needed <= 12
        /\ target_words_per_chapter >= 0

C8_Witness ==
    /\ Planned
    /\ num_pages < 0
    /\ final_page_count = num_pages
    /\ chapters_needed = 1
    /\ target_words_per_chapter = 250

\* C9: the chapter count is monotonically non-decreasing in the page count, up
\* to the cap of 12: no smaller page count gives more chapters than the planned
\* one and no larger page count gives fewer.
C9_ChapterCountMonotone ==
    Planned =>
        \A q \in PlanPages :
            /\ q <= final_page_count => chapters_needed_of(q) <= chapters_needed
            /\ q >= final_page_count => chapters_needed <= chapters_needed_of(q)
            /\ chapters_needed_of(q) <= 12

C9_Witness ==
    /\ Planned
    /\ chapters_needed = 12
    /\ final_page_count > MAX_PAGES + 20

\* the reference planner of the specification
RefClamp(x, lo, hi) == IF x < lo THEN lo ELSE IF x > hi THEN hi ELSE x
RefRound(n, d) ==
    CHOOSE r \in (-(PagesBelow + FIXED_FRONT_MATTER))..PagesAbove :
        /\ 2 * d * r <= 2 * n + d
        /\ 2 * n + d < 2 * d * (r + 1)
RefFloor(n, d) == CHOOSE t \in 0..n : d * t <= n /\ n < d * (t + 1)
RefChapterCount(pages) == RefClamp(RefRound(pages - 27, 5 + 2), 1, 12)
RefContentPages(pages) ==
    LET c == pages - 27 - 2 * RefChapterCount(pages)
    IN  IF c < 1 THEN 1 ELSE c
RefTargetWords(pages) ==
    RefFloor(RefContentPages(pages) * 250, RefChapterCount(pages))

\* C10: for every page count of the range, calculate_book_parameters equals the
\* reference planner: chapterCount = clamp(round((pages - 27) / (5 + 2)), 1, 12),
\* contentPages = max(1, pages - 27 - 2 * chapterCount), targetWordsPerChapter =
\* floor(contentPages * 250 / chapterCount); 27 pages give 1 chapter of 250 words.
C10_PlanEqualsReference ==
    Planned =>
        /\ chapters_needed = RefChapterCount(final_page_count)
        /\ target_words_per_chapter = RefTargetWords(final_page_count)
        /\ final_page_count = 27 =>
               (chapters_needed = 1 /\ target_words_per_chapter = 250)

C10_Witness ==
    /\ Planned
    /\ final_page_count = 27
    /\ chapters_needed = 1
    /\ target_words_per_chapter = 250


\* round((pages - 27) / 7) yields 0 or less: the quotient is at most one half
RoundsToNoChapter(pages) ==
    2 * (pages - FIXED_FRONT_MATTER)
        <= CONTENT_PAGES_PER_CHAPTER + OVERHEAD_PAGES_PER_CHAPTER
BookStarted == bpc # "idle"

\* C11 (as stated): for every page count for which round((pages - 27) / 7) is 0
\* or less the plan is 1 chapter with a target of 0 words, and the pipeline skips
\* generation for that chapter: empty content and no generation call.
C11_ZeroWordChapterSkipped ==
    (BookStarted /\ RoundsToNoChapter(final_page_count)) =>
        /\ chapters_needed = 1
        /\ target_words_per_chapter = 0
        /\ Started(blk["chapter"]) =>
               /\ blk["chapter"].calls = <<>>
               /\ blk["chapter"].pc = "returned" => blk["chapter"].result = <<>>

\* C11 (amended): for every such page count the plan is 1 chapter with a target
\* of 250 words, the words of the one content page the plan never goes below,
\* and the pipeline generates that chapter with exactly one generation call of
\* 250 words and no summarization call; generation is not skipped.
C11_OnePageChapterGenerated ==
    /\ hpc = "start" =>
           \A p \in PlanPages :
               RoundsToNoChapter(p) =>
                   calculate_book_parameters(p) =
                       [chapters_needed |-> 1, target_words_per_chapter |-> 250]
    /\ (BookStarted /\ RoundsToNoChapter(final_page_count)) =>
           /\ chapters_needed = 1
           /\ target_words_per_chapter = 250
           /\ Started(blk["chapter"]) =>
                  /\ blk["chapter"].calls = <<GenCall(StartOfSection, 250)>>
                  /\ blk["chapter"].sum_calls = 0
                  /\ blk["chapter"].pc = "returned" => blk["chapter"].result # <<>>

C11_Witness ==
    /\ RoundsToNoChapter(final_page_count)
    /\ num_pages < 0
    /\ blk["chapter"].pc = "returned"
    /\ Len(blk["chapter"].calls) = 1
    /\ response = 200
    /\ Len(book_data[1].chapters) = 1
    /\ book_data[1].chapters[1].content # <<>>


\* the text holds nothing but whitespace
IsBlank(text) == \A j \in 1..Len(text) : text[j] = SPACE \/ text[j] = NL
NoExternalCall ==
    /\ bpc = "idle"
    /\ blk = IdleBlocks
    /\ titles = NoTitles
    /\ ch = NoChapter
    /\ data_context = ""
    /\ book_title = <<>>
    /\ book_data = <<>>
    /\ pdf_calls = 0

\* C13: a request whose user_input is empty or only whitespace is rejected with
\* 400, never with 500, before any external call: the handler never waits for a
\* title, a selection, a generation or a PDF, and nothing of the run is started.
C13_BlankInputRejected ==
    IsBlank(user_input) =>
        /\ hpc \in {"start", "done"}
        /\ hpc = "done" => response = 400
        /\ hpc = "start" => response = 0
        /\ error = ""
        /\ NoExternalCall

C13_Witness ==
    /\ IsBlank(user_input)
    /\ Len(user_input) > 0
    /\ hpc = "done"
    /\ response = 400
    /\ NoExternalCall


\* what generate_chapter_section can return for the first call of a unit
FirstSectionTexts == {Strip(GenContent(v, 1)) : v \in GenVariants}

\* the block issued the one call of the single-call path and nothing else
IsSingleCall(b) ==
    /\ b.calls = <<GenCall(StartOfSection, b.word_target)>>
    /\ b.sum_calls = 0
    /\ b.sleeps = 0
    /\ b.parts = <<>>

\* C16: for every word target in 1..750 generate_content_block issues exactly
\* one generation call, with the summary "Start of the section." and the word
\* target itself, issues no summarization call and returns the text of that
\* call unchanged; the prologue and the epilogue, with their 250 words, always
\* take this path.
C16_SingleCallPath ==
    /\ hpc = "start" =>
           \A v \in GenVariants :
               LET text == Strip(GenContent(v, 1))
               IN  \A w \in 1..WORDS_PER_SECTION_TARGET :
                       LET b == generate_content_block(NewBlock(BlockTitle, w))
                           r == block_after_section(b, text)
                       IN  /\ b.pc = "gen"
                           /\ IsSingleCall(b)
                           /\ r.pc = "returned"
                           /\ r.result = text
                           /\ IsSingleCall(r)
    /\ \A u \in Units :
           (Started(blk[u]) /\ blk[u].word_target > 0
                            /\ blk[u].word_target <= WORDS_PER_SECTION_TARGET) =>
               /\ IsSingleCall(blk[u])
               /\ blk[u].pc \in {"gen", "returned", "raised"}
               /\ blk[u].pc = "returned" =>
                      blk[u].result \in FirstSectionTexts
    /\ \A u \in {"prologue", "epilogue"} :
           Started(blk[u]) => blk[u].word_target = 250

C16_Witness ==
    /\ \A u \in Units :
           /\ blk[u].pc = "returned"
           /\ blk[u].word_target = 250
           /\ Len(blk[u].calls) = 1
    /\ blk["prologue"].result # blk["epilogue"].result
    /\ response = 200


\* a unit of several sections
MultiSection(b) == Started(b) /\ b.word_target > WORDS_PER_SECTION_TARGET
\* the generation calls of the block that are in flight
InFlight(b) == Len(b.calls) - Len(b.parts) - b.gen_errors
\* what the k-th summarization of the block returned
SummaryOfSection(b, k) ==
    IF b.sum_log[k] = "ok" THEN summarize_section_reply(b.parts[k])
    ELSE summarize_section_fallback(b.parts[k])

\* C14: in a unit of several sections the k-th generation call exists only once
\* the calls before it have returned their sections and those sections have
\* been summarized and followed by their cooldown; its summary input is the
\* result of the summarization of the section before it; the first call gets
\* the scene-setting sentence naming the unit title; at most one generation
\* call of the unit is in flight.
C14_SectionsSequential ==
    \A u \in Units :
        MultiSection(blk[u]) =>
            LET b == blk[u]
            IN  /\ InFlight(b) \in {0, 1}
                /\ InFlight(b) = 1 <=> b.pc = "gen"
                /\ Len(b.calls) <= b.num_sections
                /\ Len(b.calls) >= 1 => b.calls[1].summary = SceneSummary(b.title)
                /\ \A k \in 2..Len(b.calls) :
                       /\ Len(b.parts) >= k - 1
                       /\ Len(b.sum_log) >= k - 1
                       /\ b.sleeps >= k - 1
                       /\ b.calls[k].summary = SummaryOfSection(b, k - 1)
                /\ b.pc \in {"sum", "sleep"} => Len(b.parts) = Len(b.calls)
                /\ b.pc = "sum" => Len(b.sum_log) = Len(b.parts) - 1
                /\ b.pc = "sleep" =>
                       /\ Len(b.sum_log) = Len(b.parts)
                       /\ b.sleeps = Len(b.parts)

C14_Witness ==
    /\ blk["chapter"].pc = "gen"
    /\ Len(blk["chapter"].calls) = 3
    /\ blk["chapter"].sum_log = <<"fail", "ok">>
    /\ blk["chapter"].calls[3].summary # blk["chapter"].calls[2].summary


ImageStages == {"image_prompt", "image_generate", "image_download"}
ChapterStages == {"chapter_block", "chapter_summary", "chapter_sleep"} \cup ImageStages

\* while chapter ch.i is processed: the calls of the chapter unit are those of
\* that chapter, the chapters before it are finished, and its own steps run in
\* the order body, summarization, illustration, cooldown
C15_OneChapterAtATime ==
    /\ bpc \in ChapterStages =>
           /\ ch.i < Len(final_titles)
           /\ blk["chapter"].title = ChapterHeading(ch.i, final_titles[ch.i + 1])
           /\ Len(chapters_data) = IF bpc = "chapter_sleep" THEN ch.i + 1 ELSE ch.i
           /\ Len(ch.image_log) = Len(chapters_data)
           /\ bpc # "chapter_block" => blk["chapter"].pc = "returned"
           /\ bpc = "chapter_summary" => ch.summary_outcome = ""
           /\ bpc \in ImageStages \cup {"chapter_sleep"} => ch.summary_outcome # ""
    /\ \A k \in 1..Len(chapters_data) :
           /\ k <= Len(final_titles)
           /\ chapters_data[k].heading = final_titles[k]

\* the chapter unit passes to another chapter only from the cooldown of the
\* chapter before it (from the joint wait for the first chapter)
C15_NextChapterAfterCooldown ==
    blk'["chapter"].title # blk["chapter"].title =>
        \/ /\ bpc = "gather"
           /\ ch'.i = 0
           /\ chapters_data' = <<>>
        \/ /\ bpc = "chapter_sleep"
           /\ ch'.i = ch.i + 1
           /\ Len(chapters_data) = ch.i + 1
           /\ Len(ch.image_log) = ch.i + 1
           /\ blk["chapter"].pc = "returned"
           /\ chapters_data' = chapters_data

\* C15: chapters are processed strictly one after another: no call of chapter
\* k+1 is issued until the body generation, the chapter-level summarization and
\* the illustration step of chapter k have completed and its cooldown has
\* elapsed, and the chapters list is appended in chapter order.
C15_ChaptersSequential ==
    []C15_OneChapterAtATime /\ [][C15_NextChapterAfterCooldown]_vars

C15_Witness ==
    /\ bpc = "chapter_block"
    /\ ch.i = 1
    /\ blk["chapter"].pc = "gen"
    /\ Len(chapters_data) = 1
    /\ chapters_data[1].image_path = NoImage


\* asyncio.gather raised into generate_user_prompt_driven_book and the handler
\* answered: the failure of the group has propagated
GatherFailed ==
    /\ bpc = "raised"
    /\ titles.pc # "idle"
    /\ blk["chapter"].pc = "idle"
    /\ error \in {"generation", "titles"}

\* C17: when one of the jointly awaited branches (prologue, epilogue, chapter
\* titles) fails, the failure propagates to the caller and the whole group is
\* aborted: once it has propagated, no branch of the group issues or completes
\* an external call any more.
C17_GroupAbortedOnFailure ==
    [][GatherFailed =>
           /\ blk'["prologue"] = blk["prologue"]
           /\ blk'["epilogue"] = blk["epilogue"]
           /\ titles' = titles]_vars

\* the selection call returned a reply (the call itself did not fail)
SelectionReplied == BookStarted /\ bpc # "select" /\ error # "selection"

\* C18: whatever reply the selection call returns, also one that cannot be
\* parsed into a mapping from category names to lists of names,
\* select_book_data_context does not raise: it returns a context (the empty one
\* for the replies it cannot parse) and the run goes on to the joint wait.
C18_UnparsableSelectionNotFatal ==
    SelectionReplied =>
        /\ data_context \in {"selected", "empty"}
        /\ error # "selection_shape"
        /\ titles.pc # "idle"

\* the paths request r has written or is writing
RunFiles(r) == run[r].images \cup {run[r].pdf[k] : k \in 1..Len(run[r].pdf)}

\* C12: the files any two requests write, concurrent or successive, chapter
\* illustrations and PDF, are at distinct paths, so that no request overwrites
\* or writes together with another a file of that other request; also when both
\* requests obtain the same book title.
C12_RunsWriteDistinctPaths ==
    \A r1 \in Runs, r2 \in Runs :
        r1 # r2 => RunFiles(r1) \cap RunFiles(r2) = {}

\* C19: in the collection script a fetch error on a page of a category, a
\* transport error or an HTTP error status, stops the fetch of that category
\* only, without a retry, and main goes on to every remaining category: the
\* error never ends the whole run.
C19_FetchErrorStopsOnlyCategory ==
    /\ fetch.pc # "crashed"
    /\ fetch.requests <= fetch.pages + 1
    /\ \A c \in 1..NumCategories :
           /\ fetch.ended[c] \in {"transport_error", "http_error"} =>
                  fetch.cat > c \/ fetch.pc = "done"
           /\ fetch.pc = "done" => fetch.ended[c] # ""

\* the external calls of the request are bounded by the chapter count and by
\* the section count of each unit
C20_CallsBounded ==
    /\ chapters_needed <= MAX_CHAPTERS
    /\ Len(final_titles) <= chapters_needed
    /\ Len(chapters_data) <= Len(final_titles)
    /\ bpc \in ChapterStages => ch.i < Len(final_titles)
    /\ pdf_calls <= 1
    /\ \A u \in Units :
           /\ Len(blk[u].calls) <= Max(1, blk[u].num_sections)
           /\ blk[u].sum_calls < Max(1, blk[u].num_sections)
           /\ blk[u].sleeps <= blk[u].sum_calls
           /\ blk[u].num_sections <= MAX_PAGES
Accepted == hpc = "title"
Terminal == hpc = "done" /\ response \in {200, 500}

\* the response, once given, is the only one
C20_OneOutcome ==
    response # 0 => (response' = response /\ hpc' = "done" /\ pdf_calls' = pdf_calls)

\* C20: every accepted request terminates: provided every external call and
\* every cooldown returns, the handler reaches exactly one terminal outcome, the
\* 200 after the PDF is rendered or the 500, after a number of external calls
\* bounded by the chapter count (at most 12) and the section count of each unit.
C20_RequestTerminates ==
    /\ []C20_CallsBounded
    /\ [][C20_OneOutcome]_vars
    /\ [](response = 200 => pdf_calls = 1 /\ book_data # <<>>)
    /\ Accepted ~> Terminal

C20_Witness ==
    /\ Terminal
    /\ response = 200
    /\ Len(chapters_data) = 1
    /\ blk["chapter"].num_sections > 1
    /\ Len(blk["chapter"].calls) = blk["chapter"].num_sections

====
